---------------------------- MODULE Spec2Model ----------------------------
(***************************************************************************)
(* A model of shiftleftcyber/sbom-validator: the SBOM validation pipeline  *)
(* of package sbomvalidator (ValidateSBOMData and its stages) and the      *)
(* exported stage functions of the older sbomvalidator/ sub-package.       *)
(*                                                                         *)
(* JSON text is a sequence of tokens; a string value is the sequence of    *)
(* its characters.  encoding/json is modelled by a recogniser (isJSON,     *)
(* isValidJSON) and a decoder into a map (ParseJSON), gojsonschema by the  *)
(* part of draft-07 the schemas of the tests use (type, properties,        *)
(* required).                                                              *)
(***************************************************************************)
EXTENDS Naturals, Sequences, FiniteSets

VARIABLES frames,    \* call id -> the activation record of one entry-point call
          schemaFS   \* the embedded schema corpus: file path -> schema document

vars == <<frames, schemaFS>>

(***************************************************************************)
(* Bounds of the model.                                                    *)
(***************************************************************************)
\* the longest JSON object of the inputs, in members
MaxMembers == 2

\* objects of at most this many members are also fed in with the closing brace cut off
MaxTruncated == 1

\* the longest generated spdxVersion string, in characters
MaxVersionLen == 4

\* how many calls a client makes one after the other
MaxCalls == 3

\* how many calls run at the same time
MaxConcurrent == 2

(***************************************************************************)
(* Strings (character sequences) that occur in the program and its tests.  *)
(***************************************************************************)
SBOM_CYCLONEDX == <<"C", "y", "c", "l", "o", "n", "e", "D", "X">>

SBOM_SPDX == <<"S", "P", "D", "X">>

UnknownSBOM == <<"U", "n", "k", "n", "o", "w", "n", "S", "B", "O", "M">>

V14 == <<"1", ".", "4">>

V20 == <<"2", ".", "0">>

SPDX23 == <<"S", "P", "D", "X", "-", "2", ".", "3">>

SPDX12 == <<"S", "P", "D", "X", "-", "1", ".", "2">>

SPDXdash == <<"S", "P", "D", "X", "-">>

SPDX23extra == <<"S", "P", "D", "X", "-", "2", ".", "3", "-", "e", "x", "t", "r", "a">>

\* a bomFormat value that is no dialect name: the dialect's name in lower case
cyclonedx == <<"c", "y", "c", "l", "o", "n", "e", "d", "x">>

(***************************************************************************)
(* JSON text.                                                              *)
(***************************************************************************)
Punct(p) == [k |-> "punct", s |-> <<p>>]

StrTok(s) == [k |-> "str", s |-> s]

NumTok(n) == [k |-> "num", s |-> n]

LitTok(l) == [k |-> "lit", s |-> <<l>>]

JunkTok(j) == [k |-> "junk", s |-> <<j>>]

Key(name) == StrTok(<<name>>)

IsScalarTok(t) == t.k \in {"str", "num", "lit"}

\* the text of one JSON object with the given members, in the given order
RECURSIVE EncodeMembers(_)
EncodeMembers(ms) ==
    IF ms = <<>> THEN <<>>
    ELSE LET m == Head(ms)
             rest == Tail(ms)
         IN  <<Key(m[1]), Punct(":"), m[2]>>
             \o (IF rest = <<>> THEN <<>> ELSE <<Punct(",")>> \o EncodeMembers(rest))

EncodeObject(ms) == <<Punct("{")>> \o EncodeMembers(ms) \o <<Punct("}")>>

\* the object text with its closing brace missing
Truncated(ms) == <<Punct("{")>> \o EncodeMembers(ms)


(***************************************************************************)
(* encoding/json: json.Unmarshal accepts exactly one JSON value and        *)
(* nothing after it.  The inputs hold scalars, arrays of scalars and       *)
(* objects whose member values are scalars.                                *)
(***************************************************************************)
\* "[" value ("," value)* "]" or "[" "]"
ValidArray(s) ==
    /\ Len(s) >= 2
    /\ s[1] = Punct("[")
    /\ s[Len(s)] = Punct("]")
    /\ \/ Len(s) = 2
       \/ /\ Len(s) % 2 = 1
          /\ \A i \in 2..(Len(s) - 1) :
                IF i % 2 = 0 THEN IsScalarTok(s[i]) ELSE s[i] = Punct(",")

\* "{" string ":" value ("," string ":" value)* "}" or "{" "}"
ValidObject(s) ==
    /\ Len(s) >= 2
    /\ s[1] = Punct("{")
    /\ s[Len(s)] = Punct("}")
    /\ \/ Len(s) = 2
       \/ /\ (Len(s) - 2) % 4 = 3
          /\ \A i \in 2..(Len(s) - 1) :
                CASE (i - 1) % 4 = 1 -> s[i].k = "str"
                  [] (i - 1) % 4 = 2 -> s[i] = Punct(":")
                  [] (i - 1) % 4 = 3 -> IsScalarTok(s[i])
                  [] OTHER -> s[i] = Punct(",")

ValidJSONText(s) ==
    \/ Len(s) = 1 /\ IsScalarTok(s[1])
    \/ ValidArray(s)
    \/ ValidObject(s)

\* isJSON with the empty input let through
isJSON_emptyAccepted(data) == data = <<>> \/ ValidJSONText(data)

\* isJSON letting through JSON objects only
isJSON_objectsOnly(data) == ValidObject(data)

\* utils.go: json.Unmarshal(data, &js) == nil, js a json.RawMessage
isJSON(data) == ValidJSONText(data)

\* utils.go: the same check on a string
isValidJSON(jsonStr) == ValidJSONText(jsonStr)

\* the number of members of a valid object text
MemberCount(s) == IF Len(s) = 2 THEN 0 ELSE (Len(s) - 2 + 1) \div 4

MemberKey(s, j) == s[4 * j - 2].s

MemberValue(s, j) == s[4 * j]

\* json.Unmarshal into a map[string]interface{}: every key of the object,
\* a repeated key keeps its last value
DecodeObject(s) ==
    LET n == MemberCount(s)
        keys == {MemberKey(s, j) : j \in 1..n}
        last(k) == CHOOSE j \in 1..n :
                      /\ MemberKey(s, j) = k
                      /\ \A i \in (j + 1)..n : MemberKey(s, i) # k
    IN  [k \in keys |-> MemberValue(s, last(k))]

\* the nil map: what Unmarshal leaves for the JSON text null
NilMap == [k \in {} |-> NumTok(<<>>)]

\* json.Unmarshal([]byte(jsonData), &obj), obj a map[string]interface{}:
\* ok is FALSE for text that is not JSON and for a JSON value that is
\* neither an object nor null
Unmarshal(jsonData) ==
    IF ~ValidJSONText(jsonData) THEN [ok |-> FALSE, obj |-> NilMap]
    ELSE IF ValidObject(jsonData) THEN [ok |-> TRUE, obj |-> DecodeObject(jsonData)]
    ELSE IF jsonData = <<LitTok("null")>> THEN [ok |-> TRUE, obj |-> NilMap]
    ELSE [ok |-> FALSE, obj |-> NilMap]

\* obj[key].(string): the comma-ok type assertion on a map lookup
IsString(obj, key) == key \in DOMAIN obj /\ obj[key].k = "str"

AsString(obj, key) == IF IsString(obj, key) THEN obj[key].s ELSE <<>>

(***************************************************************************)
(* An error is its chain of messages, the outermost first and the wrapped  *)
(* cause after it, with the value the innermost message was formatted      *)
(* with.  The nil error has the empty chain.                               *)
(***************************************************************************)
NoErr == [chain |-> <<>>, detail |-> <<>>]

Err(msg) == [chain |-> <<msg>>, detail |-> <<>>]

ErrWith(msg, detail) == [chain |-> <<msg>>, detail |-> detail]

\* fmt.Errorf("msg: %v", err)
Wrap(msg, err) == [chain |-> <<msg>> \o err.chain, detail |-> err.detail]

IsErr(err) == err.chain # <<>>

\* the innermost message of an error
Cause(err) == err.chain[Len(err.chain)]

\* results of the functions that return (string, error)
StrRet(str, err) ==
    [valid |-> FALSE, violations |-> <<>>, str |-> str, err |-> err, engine |-> <<>>]

\* results of the functions that return (bool, []string, error)
ValRet(valid, violations, err) ==
    [valid |-> valid, violations |-> violations, str |-> <<>>, err |-> err, engine |-> <<>>]

\* a result with the calls of the schema engine that were made for it
Engine(ret, calls) == [ret EXCEPT !.engine = calls]

NoRet == ValRet(FALSE, <<>>, NoErr)

\* utils (ParseJSON, later parseJSON): the decoded map or a wrapped decoder error
ParseJSON(jsonData) ==
    LET u == Unmarshal(jsonData)
    IN  IF ~u.ok THEN [obj |-> NilMap, err |-> Err("failed to parse JSON")]
        ELSE [obj |-> u.obj, err |-> NoErr]


(***************************************************************************)
(* The messages of the errors.                                             *)
(***************************************************************************)
MsgUnsupportedFileFormat == "unsupported file format"

MsgDetecting == "error detecting SBOM Type"

MsgOnlyCycloneDX == "only CycloneDX is currenty supported"

MsgExtract == "failed to extract version"

MsgLoad == "failed to load schema"

MsgSPDXNotSupported == "SPDX is not currently supported"

MsgUnknownType == "unknown SBOM type or missing required fields"

MsgInvalidJSON == "invalid JSON format"

MsgInvalidSchema == "invalid schema format"

MsgNoSpecVersion == "\"specVersion\" field missing or not a string"

MsgNoSpdxVersion == "\"spdxVersion\" field missing or not a string"

MsgNoBomFormat == "\"bomFormat\" field missing or not a string"

MsgUnknownFormat == "unknown SBOM Format"

MsgUnsupportedType == "unsupported SBOM type"

MsgReadSchema == "failed to read embedded schema file"

MsgNotExist == "file does not exist"

MsgInvalidSPDXVersion == "invalid SPDX version format"

(***************************************************************************)
(* Stage 1: the format classifier.                                         *)
(***************************************************************************)
bomFormatKey == <<"bomFormat">>

spdxVersionKey == <<"spdxVersion">>

specVersionKey == <<"specVersion">>

\* detectSBOMType looking only at the presence of spdxVersion, not at its type
detectSBOMType_anySpdxVersion(jsonData) ==
    LET p == ParseJSON(jsonData)
    IN  IF IsErr(p.err) THEN StrRet(<<>>, p.err)
        ELSE IF IsString(p.obj, bomFormatKey)
             THEN StrRet(AsString(p.obj, bomFormatKey), NoErr)
        ELSE IF spdxVersionKey \in DOMAIN p.obj
             THEN StrRet(<<>>, ErrWith(MsgSPDXNotSupported, AsString(p.obj, spdxVersionKey)))
        ELSE StrRet(<<>>, Err(MsgUnknownType))

\* detectSBOMType with an error of its own for a bomFormat of the wrong type
detectSBOMType_typeError(jsonData) ==
    LET p == ParseJSON(jsonData)
    IN  IF IsErr(p.err) THEN StrRet(<<>>, p.err)
        ELSE IF IsString(p.obj, bomFormatKey)
             THEN StrRet(AsString(p.obj, bomFormatKey), NoErr)
        ELSE IF bomFormatKey \in DOMAIN p.obj
             THEN StrRet(<<>>, Err(MsgNoBomFormat))
        ELSE IF IsString(p.obj, spdxVersionKey)
             THEN StrRet(<<>>, ErrWith(MsgSPDXNotSupported, AsString(p.obj, spdxVersionKey)))
        ELSE StrRet(<<>>, Err(MsgUnknownType))

\* detectSBOMType classifying a document with a string spdxVersion as SPDX
detectSBOMType_returnsSPDX(jsonData) ==
    LET p == ParseJSON(jsonData)
    IN  IF IsErr(p.err) THEN StrRet(<<>>, p.err)
        ELSE IF IsString(p.obj, bomFormatKey)
             THEN StrRet(AsString(p.obj, bomFormatKey), NoErr)
        ELSE IF IsString(p.obj, spdxVersionKey)
             THEN StrRet(SBOM_SPDX, NoErr)
        ELSE StrRet(<<>>, Err(MsgUnknownType))

\* validator.go (package root)
detectSBOMType(jsonData) ==
    LET p == ParseJSON(jsonData)
    IN  IF IsErr(p.err) THEN StrRet(<<>>, p.err)
        ELSE IF IsString(p.obj, bomFormatKey)
             THEN StrRet(AsString(p.obj, bomFormatKey), NoErr)
        ELSE IF IsString(p.obj, spdxVersionKey)
             THEN StrRet(<<>>, ErrWith(MsgSPDXNotSupported, AsString(p.obj, spdxVersionKey)))
        ELSE StrRet(<<>>, Err(MsgUnknownType))

\* sbomvalidator/validator.go
DetectSBOMType(jsonData) ==
    LET u == Unmarshal(jsonData)
    IN  IF ~u.ok THEN StrRet(<<>>, Err(MsgInvalidJSON))
        ELSE IF ~IsString(u.obj, bomFormatKey) THEN StrRet(<<>>, Err(MsgNoBomFormat))
        ELSE StrRet(AsString(u.obj, bomFormatKey), NoErr)

(***************************************************************************)
(* Stage 2: the version extractor.                                         *)
(***************************************************************************)
\* strings.Index(s, sep) counted from 1 at position from: the position of
\* the first sep at or after from, 0 when there is none
RECURSIVE Index(_, _, _)
Index(s, sep, from) ==
    IF from > Len(s) THEN 0
    ELSE IF s[from] = sep THEN from
    ELSE Index(s, sep, from + 1)

\* strings.SplitN(s, sep, 2): the text before the first sep and the text
\* after it, or s alone when it holds no sep
SplitN2(s, sep) ==
    LET i == Index(s, sep, 1)
    IN  IF i = 0 THEN <<s>>
        ELSE <<SubSeq(s, 1, i - 1), SubSeq(s, i + 1, Len(s))>>

\* getSPDXVersion splitting at the last hyphen
getSPDXVersion_lastHyphen(spdxVersion) ==
    LET hy == {i \in 1..Len(spdxVersion) : spdxVersion[i] = "-"}
        last == CHOOSE i \in hy : \A j \in hy : j <= i
    IN  IF hy = {} \/ last = Len(spdxVersion)
        THEN StrRet(<<>>, ErrWith(MsgInvalidSPDXVersion, spdxVersion))
        ELSE StrRet(SubSeq(spdxVersion, last + 1, Len(spdxVersion)), NoErr)

\* utils.go
getSPDXVersion(spdxVersion) ==
    LET parts == SplitN2(spdxVersion, "-")
    IN  IF Len(parts) # 2 \/ parts[2] = <<>>
        THEN StrRet(<<>>, ErrWith(MsgInvalidSPDXVersion, spdxVersion))
        ELSE StrRet(parts[2], NoErr)

\* extractSBOMVersion handing the spdxVersion string to getSPDXVersion
extractSBOMVersion_callsGetSPDXVersion(jsonData, sbomType) ==
    LET u == Unmarshal(jsonData)
    IN  IF ~u.ok THEN StrRet(<<>>, Err(MsgInvalidJSON))
        ELSE IF sbomType = SBOM_CYCLONEDX
             THEN IF ~IsString(u.obj, specVersionKey)
                  THEN StrRet(<<>>, Err(MsgNoSpecVersion))
                  ELSE StrRet(AsString(u.obj, specVersionKey), NoErr)
        ELSE IF sbomType = SBOM_SPDX
             THEN IF ~IsString(u.obj, spdxVersionKey)
                  THEN StrRet(<<>>, Err(MsgNoSpdxVersion))
                  ELSE getSPDXVersion(AsString(u.obj, spdxVersionKey))
        ELSE StrRet(<<>>, Err(MsgUnknownFormat))

\* extractSBOMVersion without its SPDX branch
extractSBOMVersion_noSPDXBranch(jsonData, sbomType) ==
    LET u == Unmarshal(jsonData)
    IN  IF ~u.ok THEN StrRet(<<>>, Err(MsgInvalidJSON))
        ELSE IF sbomType = SBOM_CYCLONEDX
             THEN IF ~IsString(u.obj, specVersionKey)
                  THEN StrRet(<<>>, Err(MsgNoSpecVersion))
                  ELSE StrRet(AsString(u.obj, specVersionKey), NoErr)
        ELSE StrRet(<<>>, Err(MsgUnknownFormat))

\* extractSBOMVersion reading specVersion for every type that is not SPDX
extractSBOMVersion_defaultsToCycloneDX(jsonData, sbomType) ==
    LET u == Unmarshal(jsonData)
    IN  IF ~u.ok THEN StrRet(<<>>, Err(MsgInvalidJSON))
        ELSE IF sbomType = SBOM_SPDX
             THEN IF ~IsString(u.obj, spdxVersionKey)
                  THEN StrRet(<<>>, Err(MsgNoSpdxVersion))
                  ELSE StrRet(AsString(u.obj, spdxVersionKey), NoErr)
        ELSE IF ~IsString(u.obj, specVersionKey)
             THEN StrRet(<<>>, Err(MsgNoSpecVersion))
        ELSE StrRet(AsString(u.obj, specVersionKey), NoErr)

\* validator.go (package root)
extractSBOMVersion(jsonData, sbomType) ==
    LET u == Unmarshal(jsonData)
    IN  IF ~u.ok THEN StrRet(<<>>, Err(MsgInvalidJSON))
        ELSE IF sbomType = SBOM_CYCLONEDX
             THEN IF ~IsString(u.obj, specVersionKey)
                  THEN StrRet(<<>>, Err(MsgNoSpecVersion))
                  ELSE StrRet(AsString(u.obj, specVersionKey), NoErr)
        ELSE IF sbomType = SBOM_SPDX
             THEN IF ~IsString(u.obj, spdxVersionKey)
                  THEN StrRet(<<>>, Err(MsgNoSpdxVersion))
                  ELSE StrRet(AsString(u.obj, spdxVersionKey), NoErr)
        ELSE StrRet(<<>>, Err(MsgUnknownFormat))

\* sbomvalidator/validator.go
ExtractVersion(jsonData, sbomType) ==
    LET u == Unmarshal(jsonData)
    IN  IF ~u.ok THEN StrRet(<<>>, Err(MsgInvalidJSON))
        ELSE IF sbomType = SBOM_CYCLONEDX
             THEN IF ~IsString(u.obj, specVersionKey)
                  THEN StrRet(<<>>, Err(MsgNoSpecVersion))
                  ELSE StrRet(AsString(u.obj, specVersionKey), NoErr)
        ELSE StrRet(<<>>, Err(MsgUnknownFormat))


(***************************************************************************)
(* Schema documents.  A schema text that does not load (malformed JSON,    *)
(* the empty string) has loads = FALSE; one that loads carries the         *)
(* keywords the engine evaluates.                                          *)
(***************************************************************************)
\* validator_test.go, TestValidateSBOM: an object with two string
\* properties, both required
validSchema ==
    [text |-> "validSchema",
     loads |-> TRUE,
     type |-> "object",
     properties |-> [k \in {bomFormatKey, specVersionKey} |-> "string"],
     required |-> <<bomFormatKey, specVersionKey>>]

\* validator_test.go, TestValidateSBOM: `{ "invalid": `
malformedSchema ==
    [text |-> "{ \"invalid\": ",
     loads |-> FALSE,
     type |-> "",
     properties |-> [k \in {} |-> ""],
     required |-> <<>>]

\* the zero value of a string, as a schema text
emptySchema ==
    [text |-> "",
     loads |-> FALSE,
     type |-> "",
     properties |-> [k \in {} |-> ""],
     required |-> <<>>]

\* the //go:embed corpus schemas/cyclonedx/*.json: one schema per
\* supported CycloneDX version
EmbeddedCorpus ==
    [p \in {<<"schemas/cyclonedx/bom-">> \o V14 \o <<".schema.json">>} |-> validSchema]

(***************************************************************************)
(* Stage 3: the schema resolver.                                           *)
(***************************************************************************)
\* fmt.Sprintf("schemas/cyclonedx/bom-%s.schema.json", version)
SchemaFile(version) == <<"schemas/cyclonedx/bom-">> \o version \o <<".schema.json">>

\* schemaFS.ReadFile(name)
ReadFile(fs, name) ==
    IF name \in DOMAIN fs THEN [data |-> fs[name], err |-> NoErr]
    ELSE [data |-> emptySchema, err |-> ErrWith(MsgNotExist, name)]

\* what the resolver hands back, with the names it asked schemaFS for
LoadRet(schema, err, reads) == [schema |-> schema, err |-> err, reads |-> reads]

\* loadSBOMSchema reading the file before it looks at the type
loadSBOMSchema_readsFirst(fs, version, sbomType) ==
    LET r == ReadFile(fs, SchemaFile(version))
    IN  IF IsErr(r.err)
        THEN LoadRet(emptySchema, Wrap(MsgReadSchema, r.err), <<SchemaFile(version)>>)
        ELSE IF sbomType # SBOM_CYCLONEDX
             THEN LoadRet(emptySchema, ErrWith(MsgUnsupportedType, sbomType),
                          <<SchemaFile(version)>>)
        ELSE LoadRet(r.data, NoErr, <<SchemaFile(version)>>)

\* loadSBOMSchema returning the empty text for a file that does not exist
loadSBOMSchema_missingIsEmpty(fs, version, sbomType) ==
    IF sbomType # SBOM_CYCLONEDX
    THEN LoadRet(emptySchema, ErrWith(MsgUnsupportedType, sbomType), <<>>)
    ELSE LoadRet(ReadFile(fs, SchemaFile(version)).data, NoErr, <<SchemaFile(version)>>)

\* validator.go (package root)
loadSBOMSchema(fs, version, sbomType) ==
    IF sbomType # SBOM_CYCLONEDX
    THEN LoadRet(emptySchema, ErrWith(MsgUnsupportedType, sbomType), <<>>)
    ELSE LET r == ReadFile(fs, SchemaFile(version))
         IN  IF IsErr(r.err)
             THEN LoadRet(emptySchema, Wrap(MsgReadSchema, r.err), <<SchemaFile(version)>>)
             ELSE LoadRet(r.data, NoErr, <<SchemaFile(version)>>)

\* sbomvalidator/validator.go
LoadSchema(fs, version, sbomType) ==
    IF sbomType # SBOM_CYCLONEDX
    THEN LoadRet(emptySchema, ErrWith(MsgUnsupportedType, sbomType), <<>>)
    ELSE LET r == ReadFile(fs, SchemaFile(version))
         IN  IF IsErr(r.err)
             THEN LoadRet(emptySchema, Wrap(MsgReadSchema, r.err), <<SchemaFile(version)>>)
             ELSE LoadRet(r.data, NoErr, <<SchemaFile(version)>>)

(***************************************************************************)
(* gojsonschema, as far as the program uses it.                            *)
(***************************************************************************)
\* the JSON type of one scalar token
TokType(t) ==
    CASE t.k = "str" -> "string"
      [] t.k = "num" -> "number"
      [] t.s = <<"null">> -> "null"
      [] OTHER -> "boolean"

\* the JSON type of a valid JSON text
JSONType(text) ==
    IF ValidObject(text) THEN "object"
    ELSE IF ValidArray(text) THEN "array"
    ELSE TokType(text[1])

\* gojsonschema.NewSchema(loader): nil iff the schema text loads
NewSchema(schemaSBOM) ==
    IF schemaSBOM.loads THEN NoErr ELSE Err("schema does not load")

\* ResultError.String(): "<field>: <description>"
String(desc) == <<desc.field, ": ">> \o desc.description

\* the errors of the required keyword, in the order of its array
RECURSIVE RequiredErrors(_, _)
RequiredErrors(required, obj) ==
    IF required = <<>> THEN <<>>
    ELSE (IF Head(required) \in DOMAIN obj THEN <<>>
          ELSE <<[field |-> "(root)",
                  description |-> Head(required) \o <<" is required">>]>>)
         \o RequiredErrors(Tail(required), obj)

\* the errors of the properties' type keywords; the properties are visited
\* in the order the schema's map was iterated in when it was compiled
RECURSIVE PropertyErrors(_, _, _)
PropertyErrors(order, properties, obj) ==
    IF order = <<>> THEN <<>>
    ELSE LET k == Head(order)
         IN  (IF k \in DOMAIN obj /\ TokType(obj[k]) # properties[k]
              THEN <<[field |-> k[1],
                      description |-> <<"Invalid type. Expected: ", properties[k],
                                        ", given: ", TokType(obj[k])>>]>>
              ELSE <<>>)
             \o PropertyErrors(Tail(order), properties, obj)

\* Result.Errors() of gojsonschema.Validate for a schema that loads and a
\* document that is JSON: a type mismatch at the root ends the evaluation,
\* otherwise every keyword is evaluated
ResultErrors(schemaSBOM, sbomData, order) ==
    IF schemaSBOM.type # "" /\ JSONType(sbomData) # schemaSBOM.type
    THEN <<[field |-> "(root)",
            description |-> <<"Invalid type. Expected: ", schemaSBOM.type,
                              ", given: ", JSONType(sbomData)>>]>>
    ELSE IF ValidObject(sbomData)
    THEN RequiredErrors(schemaSBOM.required, DecodeObject(sbomData))
         \o PropertyErrors(order, schemaSBOM.properties, DecodeObject(sbomData))
    ELSE <<>>

\* gojsonschema.Validate(schemaLoader, documentLoader)
Validate(schemaSBOM, sbomData, order) ==
    IF IsErr(NewSchema(schemaSBOM)) THEN [errors |-> <<>>, err |-> NewSchema(schemaSBOM)]
    ELSE IF ~ValidJSONText(sbomData) THEN [errors |-> <<>>, err |-> Err(MsgInvalidJSON)]
    ELSE [errors |-> ResultErrors(schemaSBOM, sbomData, order), err |-> NoErr]

\* Result.Valid()
Valid(result) == Len(result.errors) = 0

\* the orders a Go map with these keys can be iterated in
Orders(keys) ==
    {o \in [1..Cardinality(keys) -> keys] : \A i, j \in DOMAIN o : i # j => o[i] # o[j]}

(***************************************************************************)
(* Stage 4: the structural validator.                                      *)
(***************************************************************************)
\* for _, desc := range result.Errors() { errors = append(errors, desc.String()) }
Strings(errors) == [i \in 1..Len(errors) |-> String(errors[i])]

\* validateSBOM without the loop that collects the violations
validateSBOM_noViolations(schemaSBOM, sbomData, order) ==
    IF ~isValidJSON(sbomData) THEN ValRet(FALSE, <<>>, Err(MsgInvalidJSON))
    ELSE IF IsErr(NewSchema(schemaSBOM))
         THEN ValRet(FALSE, <<>>, Wrap(MsgInvalidSchema, NewSchema(schemaSBOM)))
    ELSE LET result == Validate(schemaSBOM, sbomData, order)
         IN  IF IsErr(result.err) THEN ValRet(FALSE, <<>>, result.err)
             ELSE IF ~Valid(result) THEN ValRet(FALSE, <<>>, NoErr)
             ELSE ValRet(TRUE, <<>>, NoErr)

\* validateSBOM reporting a document that does not conform as an error
validateSBOM_invalidIsError(schemaSBOM, sbomData, order) ==
    IF ~isValidJSON(sbomData) THEN ValRet(FALSE, <<>>, Err(MsgInvalidJSON))
    ELSE IF IsErr(NewSchema(schemaSBOM))
         THEN ValRet(FALSE, <<>>, Wrap(MsgInvalidSchema, NewSchema(schemaSBOM)))
    ELSE LET result == Validate(schemaSBOM, sbomData, order)
         IN  IF IsErr(result.err) THEN ValRet(FALSE, <<>>, result.err)
             ELSE IF ~Valid(result)
                  THEN ValRet(FALSE, Strings(result.errors), Err("validation failed"))
             ELSE ValRet(TRUE, <<>>, NoErr)

\* validateSBOM handing the schema error back in the violations as well
validateSBOM_partialResult(schemaSBOM, sbomData, order) ==
    IF ~isValidJSON(sbomData) THEN ValRet(FALSE, <<>>, Err(MsgInvalidJSON))
    ELSE IF IsErr(NewSchema(schemaSBOM))
         THEN ValRet(FALSE, <<NewSchema(schemaSBOM).chain>>,
                     Wrap(MsgInvalidSchema, NewSchema(schemaSBOM)))
    ELSE LET result == Validate(schemaSBOM, sbomData, order)
         IN  IF IsErr(result.err) THEN ValRet(FALSE, <<>>, result.err)
             ELSE IF ~Valid(result) THEN ValRet(FALSE, Strings(result.errors), NoErr)
             ELSE ValRet(TRUE, <<>>, NoErr)

\* validateSBOM without the gojsonschema.NewSchema check of its own
validateSBOM_schemaNotChecked(schemaSBOM, sbomData, order) ==
    IF ~isValidJSON(sbomData) THEN ValRet(FALSE, <<>>, Err(MsgInvalidJSON))
    ELSE LET result == Validate(schemaSBOM, sbomData, order)
         IN  IF IsErr(result.err) THEN ValRet(FALSE, <<>>, result.err)
             ELSE IF ~Valid(result) THEN ValRet(FALSE, Strings(result.errors), NoErr)
             ELSE ValRet(TRUE, <<>>, NoErr)

\* validateSBOM leaving its loop after the first error of the result
validateSBOM_firstViolationOnly(schemaSBOM, sbomData, order) ==
    IF ~isValidJSON(sbomData) THEN ValRet(FALSE, <<>>, Err(MsgInvalidJSON))
    ELSE IF IsErr(NewSchema(schemaSBOM))
         THEN ValRet(FALSE, <<>>, Wrap(MsgInvalidSchema, NewSchema(schemaSBOM)))
    ELSE LET result == Validate(schemaSBOM, sbomData, order)
         IN  IF IsErr(result.err) THEN ValRet(FALSE, <<>>, result.err)
             ELSE IF ~Valid(result)
                  THEN ValRet(FALSE, SubSeq(Strings(result.errors), 1, 1), NoErr)
             ELSE ValRet(TRUE, <<>>, NoErr)

\* validateSBOM looking at the schema before it looks at the document
validateSBOM_schemaFirst(schemaSBOM, sbomData, order) ==
    IF IsErr(NewSchema(schemaSBOM))
    THEN Engine(ValRet(FALSE, <<>>, Wrap(MsgInvalidSchema, NewSchema(schemaSBOM))),
                <<"NewSchema">>)
    ELSE IF ~isValidJSON(sbomData)
         THEN Engine(ValRet(FALSE, <<>>, Err(MsgInvalidJSON)), <<"NewSchema">>)
    ELSE LET result == Validate(schemaSBOM, sbomData, order)
         IN  Engine(IF IsErr(result.err) THEN ValRet(FALSE, <<>>, result.err)
                    ELSE IF ~Valid(result) THEN ValRet(FALSE, Strings(result.errors), NoErr)
                    ELSE ValRet(TRUE, <<>>, NoErr),
                    <<"NewSchema", "Validate">>)

\* validator.go (package root)
validateSBOM(schemaSBOM, sbomData, order) ==
    IF ~isValidJSON(sbomData) THEN ValRet(FALSE, <<>>, Err(MsgInvalidJSON))
    ELSE IF IsErr(NewSchema(schemaSBOM))
         THEN Engine(ValRet(FALSE, <<>>, Wrap(MsgInvalidSchema, NewSchema(schemaSBOM))),
                     <<"NewSchema">>)
    ELSE LET result == Validate(schemaSBOM, sbomData, order)
         IN  Engine(IF IsErr(result.err) THEN ValRet(FALSE, <<>>, result.err)
                    ELSE IF ~Valid(result) THEN ValRet(FALSE, Strings(result.errors), NoErr)
                    ELSE ValRet(TRUE, <<>>, NoErr),
                    <<"NewSchema", "Validate">>)

\* sbomvalidator/validator.go
ValidateSBOM(schemaSBOM, sbomData, order) ==
    IF ~isValidJSON(sbomData) THEN ValRet(FALSE, <<>>, Err(MsgInvalidJSON))
    ELSE IF IsErr(NewSchema(schemaSBOM))
         THEN Engine(ValRet(FALSE, <<>>, Wrap(MsgInvalidSchema, NewSchema(schemaSBOM))),
                     <<"NewSchema">>)
    ELSE LET result == Validate(schemaSBOM, sbomData, order)
         IN  Engine(IF IsErr(result.err) THEN ValRet(FALSE, <<>>, result.err)
                    ELSE IF ~Valid(result) THEN ValRet(FALSE, Strings(result.errors), NoErr)
                    ELSE ValRet(TRUE, <<>>, NoErr),
                    <<"NewSchema", "Validate">>)


(***************************************************************************)
(* ValidateSBOMData, one step per call it makes.  A frame is the           *)
(* activation record of one call of an entry point: its arguments, its     *)
(* position, its locals, what it returned, and the calls it has made.      *)
(***************************************************************************)
Returned(f, ret) == [f EXCEPT !.pc = "done", !.ret = ret]

Called(f, name) == [f EXCEPT !.trace = Append(@, name)]

\* a call of a stage that takes the SBOM type as an argument
CalledWith(f, name, sbomType) == [Called(f, name) EXCEPT !.dialects = Append(@, sbomType)]

\* if isJSON(sbomContent) { ... } else { return false, nil, "unsupported file format" }
ValidateSBOMData_isJSON(f) ==
    IF isJSON(f.jsonData)
    THEN [Called(f, "isJSON") EXCEPT !.pc = "detect"]
    ELSE Returned(Called(f, "isJSON"), ValRet(FALSE, <<>>, Err(MsgUnsupportedFileFormat)))

\* the classification step without the check of sbomType after it
ValidateSBOMData_detect_noTypeCheck(f) ==
    LET r == detectSBOMType(f.jsonData)
        g == Called(f, "detectSBOMType")
    IN  IF IsErr(r.err) THEN Returned(g, ValRet(FALSE, <<>>, Wrap(MsgDetecting, r.err)))
        ELSE [g EXCEPT !.pc = "extract", !.sbomType = r.str]

\* the classification step with the type "SPDX" let through as well
ValidateSBOMData_detect_allowsSPDX(f) ==
    LET r == detectSBOMType(f.jsonData)
        g == Called(f, "detectSBOMType")
    IN  IF IsErr(r.err) THEN Returned(g, ValRet(FALSE, <<>>, Wrap(MsgDetecting, r.err)))
        ELSE IF r.str \notin {SBOM_CYCLONEDX, SBOM_SPDX}
             THEN Returned([g EXCEPT !.sbomType = r.str],
                           ValRet(FALSE, <<>>, Err(MsgOnlyCycloneDX)))
        ELSE [g EXCEPT !.pc = "extract", !.sbomType = r.str]

\* sbomType, err := detectSBOMType(...), and the check of sbomType after it
ValidateSBOMData_detect(f) ==
    LET r == detectSBOMType(f.jsonData)
        g == Called(f, "detectSBOMType")
    IN  IF IsErr(r.err) THEN Returned(g, ValRet(FALSE, <<>>, Wrap(MsgDetecting, r.err)))
        ELSE IF r.str # SBOM_CYCLONEDX
             THEN Returned([g EXCEPT !.sbomType = r.str],
                           ValRet(FALSE, <<>>, Err(MsgOnlyCycloneDX)))
        ELSE [g EXCEPT !.pc = "extract", !.sbomType = r.str]

\* the extraction step with the return on its error left out
ValidateSBOMData_extract_noReturn(f) ==
    LET r == extractSBOMVersion(f.jsonData, SBOM_CYCLONEDX)
        g == CalledWith(f, "extractSBOMVersion", SBOM_CYCLONEDX)
    IN  [g EXCEPT !.pc = "load", !.sbomSchemaVersion = r.str]

\* sbomSchemaVersion, err := extractSBOMVersion(string(sbomContent), SBOM_CYCLONEDX)
ValidateSBOMData_extract(f) ==
    LET r == extractSBOMVersion(f.jsonData, SBOM_CYCLONEDX)
        g == CalledWith(f, "extractSBOMVersion", SBOM_CYCLONEDX)
    IN  IF IsErr(r.err) THEN Returned(g, ValRet(FALSE, <<>>, Wrap(MsgExtract, r.err)))
        ELSE [g EXCEPT !.pc = "load", !.sbomSchemaVersion = r.str]

\* schema, err := loadSBOMSchema(sbomSchemaVersion, SBOM_CYCLONEDX)
ValidateSBOMData_load(f, fs) ==
    LET r == loadSBOMSchema(fs, f.sbomSchemaVersion, SBOM_CYCLONEDX)
        g == [CalledWith(f, "loadSBOMSchema", SBOM_CYCLONEDX) EXCEPT !.reads = @ \o r.reads]
    IN  IF IsErr(r.err) THEN Returned(g, ValRet(FALSE, <<>>, Wrap(MsgLoad, r.err)))
        ELSE [g EXCEPT !.pc = "validate", !.schema = r.schema]

\* return validateSBOM(schema, string(sbomContent))
ValidateSBOMData_validate(f, order) ==
    Returned(Called(f, "validateSBOM"), validateSBOM(f.schema, f.jsonData, order))

(***************************************************************************)
(* The example client of the sbomvalidator/ sub-package: main calls the    *)
(* four exported stages one after the other, hands each stage's result to  *)
(* the next and ends at the first error (log.Fatalf).                      *)
(***************************************************************************)
MsgMainDetect == "Failed to extract bomFormat"

MsgMainExtract == "Failed to extract version"

MsgMainLoad == "Failed to load schema"

MsgMainValidate == "Validation error"

\* sbomType, err := sbomvalidator.DetectSBOMType(string(jsonData))
main_detect(f) ==
    LET r == DetectSBOMType(f.jsonData)
        g == Called(f, "DetectSBOMType")
    IN  IF IsErr(r.err) THEN Returned(g, ValRet(FALSE, <<>>, Wrap(MsgMainDetect, r.err)))
        ELSE [g EXCEPT !.pc = "extract", !.sbomType = r.str]

\* version, err := sbomvalidator.ExtractVersion(string(jsonData), sbomType)
main_extract(f) ==
    LET r == ExtractVersion(f.jsonData, f.sbomType)
        g == CalledWith(f, "ExtractVersion", f.sbomType)
    IN  IF IsErr(r.err) THEN Returned(g, ValRet(FALSE, <<>>, Wrap(MsgMainExtract, r.err)))
        ELSE [g EXCEPT !.pc = "load", !.sbomSchemaVersion = r.str]

\* schema, err := sbomvalidator.LoadSchema(version, sbomType)
main_load(f, fs) ==
    LET r == LoadSchema(fs, f.sbomSchemaVersion, f.sbomType)
        g == [CalledWith(f, "LoadSchema", f.sbomType) EXCEPT !.reads = @ \o r.reads]
    IN  IF IsErr(r.err) THEN Returned(g, ValRet(FALSE, <<>>, Wrap(MsgMainLoad, r.err)))
        ELSE [g EXCEPT !.pc = "validate", !.schema = r.schema]

\* valid, errors, err := sbomvalidator.ValidateSBOM(schema, string(jsonData))
main_validate(f, order) ==
    LET r == ValidateSBOM(f.schema, f.jsonData, order)
        g == Called(f, "ValidateSBOM")
    IN  IF IsErr(r.err) THEN Returned(g, ValRet(FALSE, <<>>, Wrap(MsgMainValidate, r.err)))
        ELSE Returned(g, r)

(***************************************************************************)
(* The inputs.                                                             *)
(***************************************************************************)
Num123 == NumTok(<<"1", "2", "3">>)

Num14 == NumTok(V14)

\* the members the input objects are built from: the three fields the
\* program reads, each with string values and a value of the wrong type
Members ==
    {<<"bomFormat", StrTok(SBOM_CYCLONEDX)>>, <<"bomFormat", StrTok(SBOM_SPDX)>>,
     <<"bomFormat", StrTok(cyclonedx)>>, <<"bomFormat", Num123>>,
     <<"spdxVersion", StrTok(SPDX23)>>, <<"spdxVersion", StrTok(SBOM_SPDX)>>,
     <<"spdxVersion", Num123>>,
     <<"specVersion", StrTok(V14)>>, <<"specVersion", StrTok(V20)>>,
     <<"specVersion", Num14>>}

\* the member lists of the objects of exactly n members
MemberSeqs(n) == [1..n -> Members]

\* <bom><bomFormat>CycloneDX</bomFormat></bom>
XMLText == <<JunkTok("<bom>"), JunkTok("<bomFormat>"), JunkTok("CycloneDX"),
             JunkTok("</bomFormat>"), JunkTok("</bom>")>>

\* texts that are not JSON: the empty text, XML, objects cut short
NotJSONInputs ==
    {<<>>, XMLText}
    \cup UNION {{Truncated(ms) : ms \in MemberSeqs(n)} : n \in 0..MaxTruncated}

\* JSON texts whose value is not an object
NonObjectInputs ==
    {<<LitTok("null")>>, <<LitTok("true")>>, <<Num123>>, <<StrTok(SBOM_CYCLONEDX)>>,
     <<Punct("["), Punct("]")>>, <<Punct("["), StrTok(SBOM_CYCLONEDX), Punct("]")>>}

OtherInputs == NotJSONInputs \cup NonObjectInputs

SbomTypes == {SBOM_CYCLONEDX, SBOM_SPDX, UnknownSBOM}

Versions == {V14, V20, <<>>}

Schemas == {validSchema, malformedSchema}

\* the strings getSPDXVersion is called on: those of its test, and every
\* string of up to MaxVersionLen characters out of a letter, a digit and the hyphen
SpdxVersions ==
    {SPDX23, SPDX12, SPDXdash, SBOM_SPDX, <<>>, SPDX23extra}
    \cup UNION {[1..n -> {"S", "2", "-"}] : n \in 0..MaxVersionLen}

Frame(op, jsonData, argType, argVersion, argSchema) ==
    [op |-> op, jsonData |-> jsonData, argType |-> argType, argVersion |-> argVersion,
     argSchema |-> argSchema, pc |-> "start", sbomType |-> <<>>,
     sbomSchemaVersion |-> <<>>, schema |-> emptySchema, ret |-> NoRet, trace |-> <<>>,
     reads |-> <<>>, dialects |-> <<>>]

\* the calls a client can make on a document: the entry point of the
\* package, and each stage on its own with arguments of the client's choosing
DocCalls ==
    {[op |-> "ValidateSBOMData", argType |-> <<>>, argSchema |-> emptySchema]}
    \cup {[op |-> op, argType |-> <<>>, argSchema |-> emptySchema] :
            op \in {"detectSBOMType", "DetectSBOMType"}}
    \cup {[op |-> op, argType |-> t, argSchema |-> emptySchema] :
            op \in {"extractSBOMVersion", "ExtractVersion"}, t \in SbomTypes}
    \cup {[op |-> op, argType |-> <<>>, argSchema |-> sch] :
            op \in {"validateSBOM", "ValidateSBOM"}, sch \in Schemas}

\* the calls of the schema resolver, which takes no document
LoadCalls ==
    {Frame(op, <<>>, t, v, emptySchema) :
        op \in {"loadSBOMSchema", "LoadSchema"}, t \in SbomTypes, v \in Versions}

DocFrame(call, jsonData) == Frame(call.op, jsonData, call.argType, <<>>, call.argSchema)

Starts(f) == frames = [c \in {1} |-> f]

Init ==
    /\ schemaFS = EmbeddedCorpus
    /\ \/ \E call \in DocCalls, n \in 0..MaxMembers :
             \E ms \in MemberSeqs(n) : Starts(DocFrame(call, EncodeObject(ms)))
       \/ \E call \in DocCalls, d \in OtherInputs : Starts(DocFrame(call, d))
       \/ \E f \in LoadCalls : Starts(f)
       \/ \E s \in SpdxVersions : Starts(Frame("getSPDXVersion", <<>>, <<>>, s, emptySchema))

(***************************************************************************)
(* The actions.                                                            *)
(***************************************************************************)
At(c, op, pc) == frames[c].op = op /\ frames[c].pc = pc

Becomes(c, f) ==
    /\ frames' = [frames EXCEPT ![c] = f]
    /\ UNCHANGED schemaFS

StepIsJSON ==
    \E c \in DOMAIN frames :
        /\ At(c, "ValidateSBOMData", "start")
        /\ Becomes(c, ValidateSBOMData_isJSON(frames[c]))

StepDetect ==
    \E c \in DOMAIN frames :
        /\ At(c, "ValidateSBOMData", "detect")
        /\ Becomes(c, ValidateSBOMData_detect(frames[c]))

StepExtract ==
    \E c \in DOMAIN frames :
        /\ At(c, "ValidateSBOMData", "extract")
        /\ Becomes(c, ValidateSBOMData_extract(frames[c]))

\* StepLoad with a corpus that gives every file out once
StepLoad_consumesSchema ==
    \E c \in DOMAIN frames :
        /\ At(c, "ValidateSBOMData", "load")
        /\ frames' = [frames EXCEPT ![c] = ValidateSBOMData_load(frames[c], schemaFS)]
        /\ schemaFS' = [p \in DOMAIN schemaFS \ {SchemaFile(frames[c].sbomSchemaVersion)}
                           |-> schemaFS[p]]

StepLoad ==
    \E c \in DOMAIN frames :
        /\ At(c, "ValidateSBOMData", "load")
        /\ Becomes(c, ValidateSBOMData_load(frames[c], schemaFS))

StepValidate ==
    \E c \in DOMAIN frames :
        /\ At(c, "ValidateSBOMData", "validate")
        /\ \E order \in Orders(DOMAIN frames[c].schema.properties) :
              Becomes(c, ValidateSBOMData_validate(frames[c], order))

CallDetectSBOMType ==
    \E c \in DOMAIN frames :
        /\ At(c, "detectSBOMType", "start")
        /\ Becomes(c, Returned(Called(frames[c], "detectSBOMType"),
                               detectSBOMType(frames[c].jsonData)))

CallDetectSBOMTypeOld ==
    \E c \in DOMAIN frames :
        /\ At(c, "DetectSBOMType", "start")
        /\ Becomes(c, Returned(Called(frames[c], "DetectSBOMType"),
                               DetectSBOMType(frames[c].jsonData)))

CallExtractSBOMVersion ==
    \E c \in DOMAIN frames :
        /\ At(c, "extractSBOMVersion", "start")
        /\ Becomes(c, Returned(Called(frames[c], "extractSBOMVersion"),
                               extractSBOMVersion(frames[c].jsonData, frames[c].argType)))

CallExtractVersion ==
    \E c \in DOMAIN frames :
        /\ At(c, "ExtractVersion", "start")
        /\ Becomes(c, Returned(Called(frames[c], "ExtractVersion"),
                               ExtractVersion(frames[c].jsonData, frames[c].argType)))

CallGetSPDXVersion ==
    \E c \in DOMAIN frames :
        /\ At(c, "getSPDXVersion", "start")
        /\ Becomes(c, Returned(Called(frames[c], "getSPDXVersion"),
                               getSPDXVersion(frames[c].argVersion)))

CallLoadSBOMSchema ==
    \E c \in DOMAIN frames :
        /\ At(c, "loadSBOMSchema", "start")
        /\ LET r == loadSBOMSchema(schemaFS, frames[c].argVersion, frames[c].argType)
           IN  Becomes(c, [Returned(Called(frames[c], "loadSBOMSchema"), StrRet(<<>>, r.err))
                             EXCEPT !.schema = r.schema, !.reads = @ \o r.reads])

CallLoadSchema ==
    \E c \in DOMAIN frames :
        /\ At(c, "LoadSchema", "start")
        /\ LET r == LoadSchema(schemaFS, frames[c].argVersion, frames[c].argType)
           IN  Becomes(c, [Returned(Called(frames[c], "LoadSchema"), StrRet(<<>>, r.err))
                             EXCEPT !.schema = r.schema, !.reads = @ \o r.reads])

CallValidateSBOM ==
    \E c \in DOMAIN frames :
        /\ At(c, "validateSBOM", "start")
        /\ \E order \in Orders(DOMAIN frames[c].argSchema.properties) :
              Becomes(c, Returned(Called(frames[c], "validateSBOM"),
                                  validateSBOM(frames[c].argSchema, frames[c].jsonData, order)))

CallValidateSBOMOld ==
    \E c \in DOMAIN frames :
        /\ At(c, "ValidateSBOM", "start")
        /\ \E order \in Orders(DOMAIN frames[c].argSchema.properties) :
              Becomes(c, Returned(Called(frames[c], "ValidateSBOM"),
                                  ValidateSBOM(frames[c].argSchema, frames[c].jsonData, order)))

Next ==
    \/ StepIsJSON
    \/ StepDetect
    \/ StepExtract
    \/ StepLoad
    \/ StepValidate
    \/ CallDetectSBOMType
    \/ CallDetectSBOMTypeOld
    \/ CallExtractSBOMVersion
    \/ CallExtractVersion
    \/ CallGetSPDXVersion
    \/ CallLoadSBOMSchema
    \/ CallLoadSchema
    \/ CallValidateSBOM
    \/ CallValidateSBOMOld

Spec == Init /\ [][Next]_vars

(***************************************************************************)
(* A client that makes MaxCalls calls one after the other, each when the   *)
(* call before it has returned: ValidateSBOMData on a document, or         *)
(* validateSBOM, the stage whose result ValidateSBOMData returns as its    *)
(* own, on a document and the schema of its test.                          *)
(***************************************************************************)
\* what the client passes to ValidateSBOMData: a valid SBOM, one of a
\* version without schema, an SPDX document, the empty input
RepeatedDocs ==
    {EncodeObject(<<<<"bomFormat", StrTok(SBOM_CYCLONEDX)>>, <<"specVersion", StrTok(V14)>>>>),
     EncodeObject(<<<<"bomFormat", StrTok(SBOM_CYCLONEDX)>>, <<"specVersion", StrTok(V20)>>>>),
     EncodeObject(<<<<"spdxVersion", StrTok(SPDX23)>>>>),
     <<>>}

\* what the client passes to validateSBOM: a document with one property of
\* the wrong type and one with two
InvalidDocs ==
    {EncodeObject(<<<<"bomFormat", StrTok(SBOM_CYCLONEDX)>>, <<"specVersion", Num14>>>>),
     EncodeObject(<<<<"bomFormat", Num123>>, <<"specVersion", Num14>>>>)}

RepeatedCalls ==
    {Frame("ValidateSBOMData", d, <<>>, <<>>, emptySchema) : d \in RepeatedDocs}
    \cup {Frame("validateSBOM", d, <<>>, <<>>, validSchema) : d \in InvalidDocs}

InitCalls ==
    /\ schemaFS = EmbeddedCorpus
    /\ \E fs \in [1..MaxCalls -> RepeatedCalls] :
          frames = [c \in 1..MaxCalls |->
                       IF c = 1 THEN fs[c] ELSE [fs[c] EXCEPT !.pc = "waiting"]]

\* the client makes its next call once the call before it has returned
CallAgain ==
    \E c \in DOMAIN frames :
        /\ c + 1 \in DOMAIN frames
        /\ frames[c].pc = "done"
        /\ frames[c + 1].pc = "waiting"
        /\ Becomes(c + 1, [frames[c + 1] EXCEPT !.pc = "start"])

NextCalls ==
    \/ StepIsJSON
    \/ StepDetect
    \/ StepExtract
    \/ StepLoad
    \/ StepValidate
    \/ CallValidateSBOM
    \/ CallAgain

SpecCalls == InitCalls /\ [][NextCalls]_vars

(***************************************************************************)
(* One document given to ValidateSBOMData and to the example client that   *)
(* calls the four stages itself.                                           *)
(***************************************************************************)
MainDetect ==
    \E c \in DOMAIN frames :
        /\ At(c, "main", "start")
        /\ Becomes(c, main_detect(frames[c]))

MainExtract ==
    \E c \in DOMAIN frames :
        /\ At(c, "main", "extract")
        /\ Becomes(c, main_extract(frames[c]))

MainLoad ==
    \E c \in DOMAIN frames :
        /\ At(c, "main", "load")
        /\ Becomes(c, main_load(frames[c], schemaFS))

MainValidate ==
    \E c \in DOMAIN frames :
        /\ At(c, "main", "validate")
        /\ \E order \in Orders(DOMAIN frames[c].schema.properties) :
              Becomes(c, main_validate(frames[c], order))

\* the two ways to validate one document: call 1 is ValidateSBOMData, call 2 main
BothWays(d) ==
    frames = [c \in {1, 2} |->
                 IF c = 1 THEN Frame("ValidateSBOMData", d, <<>>, <<>>, emptySchema)
                 ELSE Frame("main", d, <<>>, <<>>, emptySchema)]

\* every input that is JSON: the objects and the values that are no object
InitStages ==
    /\ schemaFS = EmbeddedCorpus
    /\ \/ \E n \in 0..MaxMembers : \E ms \in MemberSeqs(n) : BothWays(EncodeObject(ms))
       \/ \E d \in NonObjectInputs : BothWays(d)

NextStages ==
    \/ StepIsJSON
    \/ StepDetect
    \/ StepExtract
    \/ StepLoad
    \/ StepValidate
    \/ MainDetect
    \/ MainExtract
    \/ MainLoad
    \/ MainValidate

SpecStages == InitStages /\ [][NextStages]_vars

(***************************************************************************)
(* MaxConcurrent calls of ValidateSBOMData made from as many goroutines:   *)
(* every call takes its steps when it is scheduled, in any interleaving    *)
(* with the steps of the others.                                           *)
(***************************************************************************)
\* {"bomFormat": "SPDX", "specVersion": "1.4"}
SPDXTagged14 ==
    EncodeObject(<<<<"bomFormat", StrTok(SBOM_SPDX)>>, <<"specVersion", StrTok(V14)>>>>)

\* what the goroutines pass: the documents of the repeated calls, a document
\* whose bomFormat is not CycloneDX, and the JSON text null
ConcurrentDocs == RepeatedDocs \cup {SPDXTagged14, <<LitTok("null")>>}

ConcurrentCalls ==
    {Frame("ValidateSBOMData", d, <<>>, <<>>, emptySchema) : d \in ConcurrentDocs}

InitConcurrent ==
    /\ schemaFS = EmbeddedCorpus
    /\ frames \in [1..MaxConcurrent -> ConcurrentCalls]

NextConcurrent ==
    \/ StepIsJSON
    \/ StepDetect
    \/ StepExtract
    \/ StepLoad
    \/ StepValidate

SpecConcurrent == InitConcurrent /\ [][NextConcurrent]_vars


(***************************************************************************)
(* Vocabulary of the properties.                                           *)
(***************************************************************************)
Calls == DOMAIN frames

Done(c) == frames[c].pc = "done"

DoneOf(c, ops) == frames[c].op \in ops /\ Done(c)

\* the schema a structural-validator call was given
SchemaOf(c) ==
    IF frames[c].op = "ValidateSBOMData" THEN frames[c].schema ELSE frames[c].argSchema

\* what draft-07 asks of a JSON text under the keywords type, required and
\* properties, stated on the document and not as a list of errors
Conforms(schemaSBOM, text) ==
    /\ schemaSBOM.type # "" => JSONType(text) = schemaSBOM.type
    /\ ValidObject(text) =>
          LET obj == DecodeObject(text)
          IN  /\ \A i \in DOMAIN schemaSBOM.required : schemaSBOM.required[i] \in DOMAIN obj
              /\ \A k \in DOMAIN schemaSBOM.properties :
                    k \in DOMAIN obj => TokType(obj[k]) = schemaSBOM.properties[k]

\* the object a JSON object text decodes to, and the empty map for any other text
ObjectOf(text) == IF ValidObject(text) THEN DecodeObject(text) ELSE NilMap

StageOrder ==
    <<"isJSON", "detectSBOMType", "extractSBOMVersion", "loadSBOMSchema", "validateSBOM">>

(***************************************************************************)
(* C1.  Every validation result, the (valid, violations) pair that         *)
(* validateSBOM, ValidateSBOM or ValidateSBOMData returns with a nil       *)
(* error, has valid = TRUE if and only if its violations list is empty.    *)
(***************************************************************************)
C1_ValidIffNoViolations ==
    \A c \in Calls :
        (/\ DoneOf(c, {"validateSBOM", "ValidateSBOM", "ValidateSBOMData"})
         /\ ~IsErr(frames[c].ret.err))
        => (frames[c].ret.valid <=> frames[c].ret.violations = <<>>)

\* a structural validation that found two violations
C1_Witness ==
    \E c \in Calls :
        /\ DoneOf(c, {"validateSBOM"})
        /\ ~IsErr(frames[c].ret.err)
        /\ ~frames[c].ret.valid
        /\ Len(frames[c].ret.violations) = 2

(***************************************************************************)
(* C2.  A JSON document with a string bomFormat, whose specVersion names   *)
(* a schema of the embedded corpus and which satisfies that schema, makes  *)
(* ValidateSBOMData return valid = TRUE, no violations and no error.       *)
(***************************************************************************)
C2_Precondition(c) ==
    LET obj == ObjectOf(frames[c].jsonData)
    IN  /\ ValidObject(frames[c].jsonData)
        /\ IsString(obj, bomFormatKey)
        /\ IsString(obj, specVersionKey)
        /\ SchemaFile(AsString(obj, specVersionKey)) \in DOMAIN schemaFS
        /\ Conforms(schemaFS[SchemaFile(AsString(obj, specVersionKey))], frames[c].jsonData)

C2_ConformingDocumentIsValid ==
    \A c \in Calls :
        (DoneOf(c, {"ValidateSBOMData"}) /\ C2_Precondition(c))
        => /\ frames[c].ret.valid
           /\ frames[c].ret.violations = <<>>
           /\ ~IsErr(frames[c].ret.err)

(***************************************************************************)
(* C3.  When the document is JSON and the schema loads but the document    *)
(* does not conform to it, the structural validator returns no error,      *)
(* valid = FALSE and at least one violation.                               *)
(***************************************************************************)
C3_Precondition(c) ==
    /\ DoneOf(c, {"validateSBOM", "ValidateSBOM"})
    /\ frames[c].jsonData \notin NotJSONInputs
    /\ SchemaOf(c).loads
    /\ ~Conforms(SchemaOf(c), frames[c].jsonData)

C3_NonConformanceIsNotAnError ==
    \A c \in Calls :
        C3_Precondition(c)
        => /\ ~IsErr(frames[c].ret.err)
           /\ ~frames[c].ret.valid
           /\ frames[c].ret.violations # <<>>

\* {"bomFormat": "CycloneDX"} against the schema that requires specVersion too
C3_Witness ==
    \E c \in Calls :
        /\ C3_Precondition(c)
        /\ frames[c].op = "validateSBOM"
        /\ frames[c].jsonData = EncodeObject(<<<<"bomFormat", StrTok(SBOM_CYCLONEDX)>>>>)

(***************************************************************************)
(* C4.  A call that returns an error returns nothing else: valid is FALSE, *)
(* the violations are empty, a stage's string result is empty and the      *)
(* resolver hands back no schema.                                          *)
(***************************************************************************)
C4_NoPartialResult ==
    \A c \in Calls :
        (Done(c) /\ IsErr(frames[c].ret.err))
        => /\ ~frames[c].ret.valid
           /\ frames[c].ret.violations = <<>>
           /\ frames[c].ret.str = <<>>
           /\ frames[c].op \in {"loadSBOMSchema", "LoadSchema"}
                 => frames[c].schema = emptySchema

\* the structural validator failing on a schema that does not load
C4_Witness ==
    \E c \in Calls :
        /\ DoneOf(c, {"validateSBOM"})
        /\ frames[c].jsonData \notin NotJSONInputs
        /\ ~frames[c].argSchema.loads
        /\ IsErr(frames[c].ret.err)


(***************************************************************************)
(* C5.  One ValidateSBOMData call makes its calls in the fixed order       *)
(* isJSON, detectSBOMType, extractSBOMVersion, loadSBOMSchema,             *)
(* validateSBOM, each at most once; a stage is reached only when every     *)
(* stage before it succeeded, and a failed stage ends the call with that   *)
(* stage's error.                                                          *)
(***************************************************************************)
C5_StagesInOrderNoRetry ==
    \A c \in Calls :
        frames[c].op = "ValidateSBOMData" =>
            LET f == frames[c]
                n == Len(f.trace)
                detected == detectSBOMType(f.jsonData)
                extracted == extractSBOMVersion(f.jsonData, SBOM_CYCLONEDX)
                loaded == loadSBOMSchema(schemaFS, f.sbomSchemaVersion, SBOM_CYCLONEDX)
            IN  /\ n <= Len(StageOrder)
                /\ \A i \in 1..n : f.trace[i] = StageOrder[i]
                /\ IsErr(f.ret.err) => f.pc = "done"
                /\ n >= 3 => ~IsErr(detected.err)
                /\ n >= 4 => ~IsErr(extracted.err)
                /\ n >= 5 => ~IsErr(loaded.err)
                /\ (n = 2 /\ IsErr(detected.err))
                      => f.pc = "done" /\ f.ret.err = Wrap(MsgDetecting, detected.err)
                /\ (n = 3 /\ IsErr(extracted.err))
                      => f.pc = "done" /\ f.ret.err = Wrap(MsgExtract, extracted.err)
                /\ (n = 4 /\ IsErr(loaded.err))
                      => f.pc = "done" /\ f.ret.err = Wrap(MsgLoad, loaded.err)

\* a call that stopped at the version extractor
C5_Witness ==
    \E c \in Calls :
        /\ DoneOf(c, {"ValidateSBOMData"})
        /\ frames[c].trace = SubSeq(StageOrder, 1, 3)
        /\ IsErr(frames[c].ret.err)

(***************************************************************************)
(* C6.  On an input that is not JSON (the empty input, XML, a truncated    *)
(* object) ValidateSBOMData fails with "unsupported file format" and has   *)
(* called none of the four stages.                                         *)
(***************************************************************************)
C6_NotJSONIsUnsupportedFileFormat ==
    \A c \in Calls :
        (DoneOf(c, {"ValidateSBOMData"}) /\ frames[c].jsonData \in NotJSONInputs)
        => /\ frames[c].ret = ValRet(FALSE, <<>>, Err(MsgUnsupportedFileFormat))
           /\ frames[c].trace = <<"isJSON">>

\* the empty input, rejected
C6_Witness ==
    \E c \in Calls :
        /\ DoneOf(c, {"ValidateSBOMData"})
        /\ frames[c].jsonData = <<>>
        /\ Cause(frames[c].ret.err) = MsgUnsupportedFileFormat

(***************************************************************************)
(* C7.  A JSON object with neither a string bomFormat nor a string         *)
(* spdxVersion makes detectSBOMType fail with the unknown-type error and   *)
(* return no dialect, and makes ValidateSBOMData fail with that error at   *)
(* the classifier.                                                         *)
(***************************************************************************)
C7_Precondition(c) ==
    /\ ValidObject(frames[c].jsonData)
    /\ ~IsString(ObjectOf(frames[c].jsonData), bomFormatKey)
    /\ ~IsString(ObjectOf(frames[c].jsonData), spdxVersionKey)

C7_NoMarkerIsUnknownFormat ==
    \A c \in Calls :
        C7_Precondition(c) =>
            /\ DoneOf(c, {"detectSBOMType"})
                  => frames[c].ret = StrRet(<<>>, Err(MsgUnknownType))
            /\ DoneOf(c, {"ValidateSBOMData"})
                  => /\ frames[c].ret = ValRet(FALSE, <<>>, Wrap(MsgDetecting, Err(MsgUnknownType)))
                     /\ frames[c].trace = SubSeq(StageOrder, 1, 2)
                     /\ frames[c].sbomType = <<>>

\* {"spdxVersion": 123, "specVersion": "1.4"} through ValidateSBOMData
C7_Witness ==
    \E c \in Calls :
        /\ DoneOf(c, {"ValidateSBOMData"})
        /\ frames[c].jsonData
              = EncodeObject(<<<<"spdxVersion", Num123>>, <<"specVersion", StrTok(V14)>>>>)
        /\ Cause(frames[c].ret.err) = MsgUnknownType

(***************************************************************************)
(* C8.  A document with a string bomFormat and a string spdxVersion is     *)
(* classified as CycloneDX, whatever the two values are and in whatever    *)
(* order the keys come.                                                    *)
(***************************************************************************)
C8_DualTaggedIsCycloneDX ==
    \A c \in Calls :
        (/\ DoneOf(c, {"detectSBOMType", "DetectSBOMType"})
         /\ IsString(ObjectOf(frames[c].jsonData), bomFormatKey)
         /\ IsString(ObjectOf(frames[c].jsonData), spdxVersionKey))
        => frames[c].ret = StrRet(SBOM_CYCLONEDX, NoErr)

(***************************************************************************)
(* C9.  A marker field of the wrong type counts as absent: the classifier  *)
(* returns for the document what it returns for the document with every    *)
(* non-string marker field removed; with a non-string bomFormat a string   *)
(* spdxVersion gets the SPDX outcome, and a non-string bomFormat alone     *)
(* the unknown-type error.                                                 *)
(***************************************************************************)
\* the members of an object text, in its order
MembersOf(text) ==
    [j \in 1..MemberCount(text) |-> <<MemberKey(text, j)[1], MemberValue(text, j)>>]

\* the object text without the members of a marker key whose value is not a string
WithoutNonStringMarkers(text) ==
    LET obj == DecodeObject(text)
        keep(m) == ~(/\ <<m[1]>> \in {bomFormatKey, spdxVersionKey}
                     /\ ~IsString(obj, <<m[1]>>))
    IN  EncodeObject(SelectSeq(MembersOf(text), keep))

C9_NonStringMarkerIsAbsent ==
    \A c \in Calls :
        (DoneOf(c, {"detectSBOMType"}) /\ ValidObject(frames[c].jsonData)) =>
            LET obj == DecodeObject(frames[c].jsonData)
                wrongType(k) == k \in DOMAIN obj /\ ~IsString(obj, k)
            IN  /\ frames[c].ret = detectSBOMType(WithoutNonStringMarkers(frames[c].jsonData))
                /\ (wrongType(bomFormatKey) /\ IsString(obj, spdxVersionKey))
                      => frames[c].ret
                            = StrRet(<<>>, ErrWith(MsgSPDXNotSupported,
                                                   AsString(obj, spdxVersionKey)))
                /\ (wrongType(bomFormatKey) /\ spdxVersionKey \notin DOMAIN obj)
                      => frames[c].ret = StrRet(<<>>, Err(MsgUnknownType))

\* {"bomFormat": 123, "spdxVersion": "SPDX-2.3"}
C9_Witness ==
    \E c \in Calls :
        /\ DoneOf(c, {"detectSBOMType"})
        /\ frames[c].jsonData
              = EncodeObject(<<<<"bomFormat", Num123>>, <<"spdxVersion", StrTok(SPDX23)>>>>)
        /\ WithoutNonStringMarkers(frames[c].jsonData)
              = EncodeObject(<<<<"spdxVersion", StrTok(SPDX23)>>>>)

(***************************************************************************)
(* C10.  As claimed: a document with a string spdxVersion and no string    *)
(* bomFormat is classified as SPDX without error, and ValidateSBOMData     *)
(* fails on it at the schema resolver, with the unsupported-type error.    *)
(***************************************************************************)
C10_Precondition(c) ==
    /\ ValidObject(frames[c].jsonData)
    /\ ~IsString(ObjectOf(frames[c].jsonData), bomFormatKey)
    /\ IsString(ObjectOf(frames[c].jsonData), spdxVersionKey)

C10_Original ==
    \A c \in Calls :
        C10_Precondition(c) =>
            /\ DoneOf(c, {"detectSBOMType"}) => frames[c].ret = StrRet(SBOM_SPDX, NoErr)
            /\ DoneOf(c, {"ValidateSBOMData"})
                  => /\ frames[c].trace = SubSeq(StageOrder, 1, 4)
                     /\ Cause(frames[c].ret.err) = MsgUnsupportedType

(***************************************************************************)
(* C10, amended.  On a document with a string spdxVersion and no string    *)
(* bomFormat detectSBOMType fails with "SPDX is not currently supported",  *)
(* carrying the spdxVersion value, and returns no dialect;                 *)
(* ValidateSBOMData fails with that error at the classifier, before        *)
(* version extraction and schema resolution.                               *)
(***************************************************************************)
C10_SPDXIsRejectedByClassifier ==
    \A c \in Calls :
        C10_Precondition(c) =>
            LET v == AsString(ObjectOf(frames[c].jsonData), spdxVersionKey)
            IN  /\ DoneOf(c, {"detectSBOMType"})
                      => frames[c].ret = StrRet(<<>>, ErrWith(MsgSPDXNotSupported, v))
                /\ DoneOf(c, {"ValidateSBOMData"})
                      => /\ frames[c].ret
                               = ValRet(FALSE, <<>>,
                                        Wrap(MsgDetecting, ErrWith(MsgSPDXNotSupported, v)))
                         /\ frames[c].trace = SubSeq(StageOrder, 1, 2)

\* {"spdxVersion": "SPDX-2.3"} through ValidateSBOMData
C10_Witness ==
    \E c \in Calls :
        /\ DoneOf(c, {"ValidateSBOMData"})
        /\ frames[c].jsonData = EncodeObject(<<<<"spdxVersion", StrTok(SPDX23)>>>>)
        /\ Cause(frames[c].ret.err) = MsgSPDXNotSupported

(***************************************************************************)
(* C11.  Whenever a classifier succeeds, what it returns is one of the     *)
(* two dialects CycloneDX and SPDX, never another string such as the raw   *)
(* content of the bomFormat field.                                         *)
(***************************************************************************)
C11_ClassifierReturnsADialect ==
    \A c \in Calls :
        (/\ DoneOf(c, {"detectSBOMType", "DetectSBOMType"})
         /\ ~IsErr(frames[c].ret.err))
        => frames[c].ret.str \in {SBOM_CYCLONEDX, SBOM_SPDX}

(***************************************************************************)
(* C12.  getSPDXVersion(s) succeeds exactly when s holds a hyphen and the  *)
(* text after its first hyphen is not empty, and then returns that text    *)
(* unchanged; otherwise it returns the empty string and an error.          *)
(***************************************************************************)
\* the positions of the hyphens of a string
Hyphens(s) == {i \in 1..Len(s) : s[i] = "-"}

C12_SuffixAfterFirstHyphen ==
    \A c \in Calls :
        DoneOf(c, {"getSPDXVersion"}) =>
            LET s == frames[c].argVersion
                first == CHOOSE i \in Hyphens(s) : \A j \in Hyphens(s) : i <= j
            IN  IF Hyphens(s) # {} /\ first < Len(s)
                THEN frames[c].ret = StrRet([i \in 1..(Len(s) - first) |-> s[first + i]], NoErr)
                ELSE /\ IsErr(frames[c].ret.err)
                     /\ frames[c].ret.str = <<>>

\* "SPDX-2.3-extra" gives "2.3-extra"
C12_Witness ==
    \E c \in Calls :
        /\ DoneOf(c, {"getSPDXVersion"})
        /\ frames[c].argVersion = SPDX23extra
        /\ frames[c].ret.str = <<"2", ".", "3", "-", "e", "x", "t", "r", "a">>
        /\ ~IsErr(frames[c].ret.err)

(***************************************************************************)
(* C13.  As claimed: extractSBOMVersion called with the dialect SPDX       *)
(* returns the part of the spdxVersion string after its first hyphen, and  *)
(* fails when the field is missing, is not a string, holds no hyphen or    *)
(* has nothing after the hyphen.                                           *)
(***************************************************************************)
\* an extractor call with the dialect SPDX on a JSON object
C13_Precondition(c) ==
    /\ DoneOf(c, {"extractSBOMVersion"})
    /\ frames[c].argType = SBOM_SPDX
    /\ ValidObject(frames[c].jsonData)

C13_Original ==
    \A c \in Calls :
        C13_Precondition(c) =>
            LET obj == ObjectOf(frames[c].jsonData)
                s == AsString(obj, spdxVersionKey)
                first == CHOOSE i \in Hyphens(s) : \A j \in Hyphens(s) : i <= j
            IN  IF IsString(obj, spdxVersionKey) /\ Hyphens(s) # {} /\ first < Len(s)
                THEN frames[c].ret = StrRet(SubSeq(s, first + 1, Len(s)), NoErr)
                ELSE /\ IsErr(frames[c].ret.err)
                     /\ frames[c].ret.str = <<>>

(***************************************************************************)
(* C13, amended.  extractSBOMVersion called with the dialect SPDX returns  *)
(* the whole spdxVersion string, prefix and hyphen included, for every     *)
(* string value, also one with no hyphen; it fails, returning the empty    *)
(* string, only when the field is missing or is not a string.              *)
(***************************************************************************)
C13_SPDXVersionIsNotSplit ==
    \A c \in Calls :
        C13_Precondition(c) =>
            LET obj == ObjectOf(frames[c].jsonData)
            IN  IF spdxVersionKey \in DOMAIN obj /\ obj[spdxVersionKey].k = "str"
                THEN frames[c].ret = StrRet(obj[spdxVersionKey].s, NoErr)
                ELSE frames[c].ret = StrRet(<<>>, Err(MsgNoSpdxVersion))

\* {"spdxVersion": "SPDX"}: no hyphen, and no error
C13_Witness ==
    \E c \in Calls :
        /\ C13_Precondition(c)
        /\ frames[c].jsonData = EncodeObject(<<<<"spdxVersion", StrTok(SBOM_SPDX)>>>>)
        /\ frames[c].ret = StrRet(SBOM_SPDX, NoErr)

(***************************************************************************)
(* C14.  extractSBOMVersion called with sbomType "SPDX" on a document      *)
(* whose spdxVersion is a string returns that string as it stands and no   *)
(* error: "SPDX-2.3" for {"spdxVersion": "SPDX-2.3"}.                      *)
(***************************************************************************)
C14_SPDXVersionVerbatim ==
    \A c \in Calls :
        (/\ DoneOf(c, {"extractSBOMVersion"})
         /\ frames[c].argType = SBOM_SPDX
         /\ IsString(ObjectOf(frames[c].jsonData), spdxVersionKey))
        => /\ frames[c].ret.str = AsString(ObjectOf(frames[c].jsonData), spdxVersionKey)
           /\ ~IsErr(frames[c].ret.err)

\* the document of the test
C14_Witness ==
    \E c \in Calls :
        /\ DoneOf(c, {"extractSBOMVersion"})
        /\ frames[c].argType = SBOM_SPDX
        /\ frames[c].jsonData = EncodeObject(<<<<"spdxVersion", StrTok(SPDX23)>>>>)
        /\ frames[c].ret.str = SPDX23

(***************************************************************************)
(* C15.  Called with the dialect CycloneDX on a JSON object, the version   *)
(* extractor returns the specVersion string unchanged, or the empty string *)
(* and the missing-version error when specVersion is absent or not a       *)
(* string; the extraction step of ValidateSBOMData does the same.  Called  *)
(* with a type it does not know, the extractor fails on every document.    *)
(***************************************************************************)
C15_CycloneDXVersionOrError ==
    \A c \in Calls :
        LET f == frames[c]
            obj == ObjectOf(f.jsonData)
            has == specVersionKey \in DOMAIN obj /\ obj[specVersionKey].k = "str"
        IN  /\ (/\ DoneOf(c, {"extractSBOMVersion", "ExtractVersion"})
                /\ f.argType = SBOM_CYCLONEDX
                /\ ValidObject(f.jsonData))
               => IF has THEN f.ret = StrRet(obj[specVersionKey].s, NoErr)
                  ELSE f.ret = StrRet(<<>>, Err(MsgNoSpecVersion))
            /\ (f.op = "ValidateSBOMData" /\ Len(f.trace) >= 3)
               => IF has THEN f.sbomSchemaVersion = obj[specVersionKey].s
                  ELSE /\ f.ret = ValRet(FALSE, <<>>, Wrap(MsgExtract, Err(MsgNoSpecVersion)))
                       /\ f.sbomSchemaVersion = <<>>
            /\ (\/ DoneOf(c, {"extractSBOMVersion"}) /\ f.argType \notin {SBOM_CYCLONEDX, SBOM_SPDX}
                \/ DoneOf(c, {"ExtractVersion"}) /\ f.argType # SBOM_CYCLONEDX)
               => /\ IsErr(f.ret.err)
                  /\ f.ret.str = <<>>

\* a type the extractor does not know, on a document that has its specVersion
C15_Witness ==
    \E c \in Calls :
        /\ DoneOf(c, {"extractSBOMVersion"})
        /\ frames[c].argType = UnknownSBOM
        /\ IsString(ObjectOf(frames[c].jsonData), specVersionKey)
        /\ Cause(frames[c].ret.err) = MsgUnknownFormat

(***************************************************************************)
(* C16.  Called with a type other than CycloneDX (SPDX, an unknown tag),   *)
(* the schema resolver fails with the unsupported-type error for every     *)
(* version, also one whose CycloneDX schema exists; it reads no file of    *)
(* the corpus, and the error is not the one of a schema that is not found. *)
(***************************************************************************)
C16_OtherTypeIsUnsupported ==
    \A c \in Calls :
        (DoneOf(c, {"loadSBOMSchema", "LoadSchema"}) /\ frames[c].argType # SBOM_CYCLONEDX)
        => /\ frames[c].ret.err = ErrWith(MsgUnsupportedType, frames[c].argType)
           /\ frames[c].reads = <<>>
           /\ frames[c].schema = emptySchema
           /\ \A i \in DOMAIN frames[c].ret.err.chain :
                 frames[c].ret.err.chain[i] \notin {MsgReadSchema, MsgNotExist}

\* SPDX with a version that no CycloneDX schema exists for
C16_Witness ==
    \E c \in Calls :
        /\ DoneOf(c, {"loadSBOMSchema"})
        /\ frames[c].argType = SBOM_SPDX
        /\ frames[c].argVersion = V20
        /\ Cause(frames[c].ret.err) = MsgUnsupportedType

(***************************************************************************)
(* C17.  Called with CycloneDX, the schema resolver reads exactly the file *)
(* schemas/cyclonedx/bom-<version>.schema.json; when the corpus has it,    *)
(* it returns that file's text, which is not empty, and no error; when     *)
(* not, it fails with the read error, which carries the file name, and     *)
(* returns no schema.  The resolution step of ValidateSBOMData does the    *)
(* same with the version it extracted.                                     *)
(***************************************************************************)
\* the lookup key of a version
C17_Key(version) == <<"schemas/cyclonedx/bom-">> \o version \o <<".schema.json">>

C17_NotFound(version) ==
    [chain |-> <<MsgReadSchema, MsgNotExist>>, detail |-> C17_Key(version)]

C17_CycloneDXLookup ==
    \A c \in Calls :
        LET f == frames[c]
        IN  /\ (DoneOf(c, {"loadSBOMSchema", "LoadSchema"}) /\ f.argType = SBOM_CYCLONEDX)
               => /\ f.reads = <<C17_Key(f.argVersion)>>
                  /\ IF C17_Key(f.argVersion) \in DOMAIN schemaFS
                     THEN /\ ~IsErr(f.ret.err)
                          /\ f.schema = schemaFS[C17_Key(f.argVersion)]
                          /\ f.schema.text # ""
                     ELSE /\ f.ret.err = C17_NotFound(f.argVersion)
                          /\ f.schema = emptySchema
            /\ (f.op = "ValidateSBOMData" /\ Len(f.trace) >= 4)
               => /\ f.reads = <<C17_Key(f.sbomSchemaVersion)>>
                  /\ IF C17_Key(f.sbomSchemaVersion) \in DOMAIN schemaFS
                     THEN f.schema = schemaFS[C17_Key(f.sbomSchemaVersion)]
                     ELSE /\ f.ret = ValRet(FALSE, <<>>,
                                            Wrap(MsgLoad, C17_NotFound(f.sbomSchemaVersion)))
                          /\ f.schema = emptySchema

\* {"bomFormat": "CycloneDX", "specVersion": "2.0"} through ValidateSBOMData
C17_Witness ==
    \E c \in Calls :
        /\ DoneOf(c, {"ValidateSBOMData"})
        /\ frames[c].jsonData
              = EncodeObject(<<<<"bomFormat", StrTok(SBOM_CYCLONEDX)>>,
                               <<"specVersion", StrTok(V20)>>>>)
        /\ Cause(frames[c].ret.err) = MsgNotExist
        /\ frames[c].ret.err.detail = C17_Key(V20)

(***************************************************************************)
(* C18.  Given a schema text that does not load and a document that is     *)
(* JSON, the structural validator fails with "invalid schema format",      *)
(* returns valid = FALSE and no violations.                                *)
(***************************************************************************)
C18_Precondition(c) ==
    /\ DoneOf(c, {"validateSBOM", "ValidateSBOM"})
    /\ frames[c].jsonData \notin NotJSONInputs
    /\ ~frames[c].argSchema.loads

C18_MalformedSchemaIsInvalidSchema ==
    \A c \in Calls :
        C18_Precondition(c)
        => /\ IsErr(frames[c].ret.err)
           /\ Head(frames[c].ret.err.chain) = MsgInvalidSchema
           /\ ~frames[c].ret.valid
           /\ frames[c].ret.violations = <<>>

\* the schema `{ "invalid": ` with a document that is a CycloneDX 1.4 object
C18_Witness ==
    \E c \in Calls :
        /\ C18_Precondition(c)
        /\ frames[c].op = "validateSBOM"
        /\ frames[c].argSchema = malformedSchema
        /\ frames[c].jsonData
              = EncodeObject(<<<<"bomFormat", StrTok(SBOM_CYCLONEDX)>>,
                               <<"specVersion", StrTok(V14)>>>>)

(***************************************************************************)
(* C19.  The violations a structural validation returns are the strings    *)
(* of the errors of the engine's result, all of them and in the result's   *)
(* order: there are as many as the document breaks constraints of the      *)
(* schema, so two or more when it breaks two.                              *)
(***************************************************************************)
\* how many constraints of the schema a JSON text breaks: the type of the
\* root, or else every required key that is missing and every property of
\* the wrong type
Broken(schemaSBOM, text) ==
    IF schemaSBOM.type # "" /\ JSONType(text) # schemaSBOM.type THEN 1
    ELSE IF ~ValidObject(text) THEN 0
    ELSE LET obj == DecodeObject(text)
         IN  Cardinality({i \in DOMAIN schemaSBOM.required :
                             schemaSBOM.required[i] \notin DOMAIN obj})
             + Cardinality({k \in DOMAIN schemaSBOM.properties :
                               k \in DOMAIN obj /\ TokType(obj[k]) # schemaSBOM.properties[k]})

\* a structural validation that came back without an error
C19_Precondition(c) ==
    /\ \/ DoneOf(c, {"validateSBOM", "ValidateSBOM"})
       \/ DoneOf(c, {"ValidateSBOMData"}) /\ Len(frames[c].trace) = Len(StageOrder)
    /\ ~IsErr(frames[c].ret.err)

C19_EveryViolationInOrder ==
    \A c \in Calls :
        C19_Precondition(c)
        => /\ Len(frames[c].ret.violations) = Broken(SchemaOf(c), frames[c].jsonData)
           /\ \E order \in Orders(DOMAIN SchemaOf(c).properties) :
                 LET errors == ResultErrors(SchemaOf(c), frames[c].jsonData, order)
                 IN  frames[c].ret.violations
                        = [i \in 1..Len(errors) |-> <<errors[i].field, ": ">> \o errors[i].description]

\* {"bomFormat": 123}: specVersion is missing and bomFormat is of the wrong type
C19_Witness ==
    \E c \in Calls :
        /\ C19_Precondition(c)
        /\ frames[c].op = "validateSBOM"
        /\ frames[c].jsonData = EncodeObject(<<<<"bomFormat", Num123>>>>)
        /\ frames[c].ret.violations
              = << <<"(root)", ": ">> \o specVersionKey \o <<" is required">>,
                   <<"bomFormat", ": ", "Invalid type. Expected: ", "string", ", given: ",
                     "number">> >>

RECURSIVE RunAlone(_, _)
RunAlone(f, fs) ==
    {f} \cup
    (CASE f.pc = "start" -> RunAlone(ValidateSBOMData_isJSON(f), fs)
       [] f.pc = "detect" -> RunAlone(ValidateSBOMData_detect(f), fs)
       [] f.pc = "extract" -> RunAlone(ValidateSBOMData_extract(f), fs)
       [] f.pc = "load" -> RunAlone(ValidateSBOMData_load(f, fs), fs)
       [] f.pc = "validate" ->
            {ValidateSBOMData_validate(f, order) : order \in Orders(DOMAIN f.schema.properties)}
       [] OTHER -> {})

C21_ConcurrentCallsAreIndependent ==
    /\ schemaFS = EmbeddedCorpus
    /\ \A c \in Calls :
          frames[c].op = "ValidateSBOMData"
          => frames[c] \in RunAlone(Frame("ValidateSBOMData", frames[c].jsonData,
                                          <<>>, <<>>, emptySchema),
                                    EmbeddedCorpus)

\* two calls on the same valid document, one returned and one still at its start
C21_Witness ==
    \E c, d \in Calls :
        /\ c # d
        /\ frames[c].jsonData = frames[d].jsonData
        /\ DoneOf(c, {"ValidateSBOMData"})
        /\ frames[c].ret = Engine(ValRet(TRUE, <<>>, NoErr), <<"NewSchema", "Validate">>)
        /\ frames[d].pc = "start"

(***************************************************************************)
(* C22.  On every input that is JSON, ValidateSBOMData and a caller that   *)
(* runs the four exported stages in sequence, each on the result of the    *)
(* one before and up to the first error, end with the same outcome: an     *)
(* error or none, the same valid flag, the same violations.                *)
(***************************************************************************)
\* what the claim compares of a result
Outcome(ret) == <<IsErr(ret.err), ret.valid, ret.violations>>

C23_Precondition(c) ==
    /\ DoneOf(c, {"validateSBOM", "ValidateSBOM"})
    /\ frames[c].jsonData \in NotJSONInputs

C23_DocumentSyntaxIsCheckedFirst ==
    \A c \in Calls :
        C23_Precondition(c)
        => /\ frames[c].ret.err = Err(MsgInvalidJSON)
           /\ ~frames[c].ret.valid
           /\ frames[c].ret.violations = <<>>
           /\ frames[c].ret.engine = <<>>

\* {"bomFormat": "CycloneDX" without its closing brace, and the schema `{ "invalid": `
C23_Witness ==
    \E c \in Calls :
        /\ C23_Precondition(c)
        /\ frames[c].op = "validateSBOM"
        /\ frames[c].argSchema = malformedSchema
        /\ frames[c].jsonData = Truncated(<<<<"bomFormat", StrTok(SBOM_CYCLONEDX)>>>>)
        /\ Cause(frames[c].ret.err) = MsgInvalidJSON

(***************************************************************************)
(* C24.  A document that is JSON but whose value is not an object (an      *)
(* array, a string, a number, a boolean, null) gets through the isJSON     *)
(* check of ValidateSBOMData and fails at the classification: the call     *)
(* returns an error with valid = FALSE and no violations, it never         *)
(* extracts a version, loads a schema or validates, and it never returns   *)
(* a verdict.                                                              *)
(***************************************************************************)
C24_Precondition(c) ==
    /\ frames[c].op = "ValidateSBOMData"
    /\ frames[c].jsonData \in NonObjectInputs

C24_NonObjectFailsAtClassification ==
    \A c \in Calls :
        C24_Precondition(c)
        => /\ frames[c].pc \in {"start", "detect", "done"}
           /\ frames[c].reads = <<>>
           /\ frames[c].pc = "done"
              => /\ frames[c].trace = <<"isJSON", "detectSBOMType">>
                 /\ IsErr(frames[c].ret.err)
                 /\ frames[c].ret.err.chain[1] = MsgDetecting
                 /\ ~frames[c].ret.valid
                 /\ frames[c].ret.violations = <<>>
                 /\ frames[c].ret.engine = <<>>

\* null decodes into the nil map without an error, and no key is found in it
C24_Witness ==
    \E c \in Calls :
        /\ C24_Precondition(c)
        /\ frames[c].jsonData = <<LitTok("null")>>
        /\ frames[c].pc = "done"
        /\ frames[c].ret = ValRet(FALSE, <<>>, Wrap(MsgDetecting, Err(MsgUnknownType)))

(***************************************************************************)
(* C25.  Inside ValidateSBOMData the version extractor and the schema      *)
(* resolver are called with the type CycloneDX only, and only for a        *)
(* document whose detected type is exactly "CycloneDX": a document with    *)
(* any other string for bomFormat ("SPDX", "cyclonedx") is turned away     *)
(* with an error before the version is extracted.  So the call never ends  *)
(* with the resolver's "unsupported SBOM type" or the extractor's          *)
(* "unknown SBOM Format", and a CycloneDX document without a string        *)
(* specVersion ends with an error and no violations.                       *)
(***************************************************************************)
C25_Precondition(c) == frames[c].op = "ValidateSBOMData"

C25_PastClassification(f) ==
    \E i \in 1..Len(f.trace) : f.trace[i] \in {"extractSBOMVersion", "loadSBOMSchema"}

C25_OnlyCycloneDXGoesOn ==
    \A c \in Calls :
        C25_Precondition(c)
        => LET f == frames[c]
               obj == ObjectOf(f.jsonData)
           IN  /\ \A i \in 1..Len(f.dialects) : f.dialects[i] = SBOM_CYCLONEDX
               /\ C25_PastClassification(f)
                  => /\ f.sbomType = SBOM_CYCLONEDX
                     /\ AsString(obj, bomFormatKey) = SBOM_CYCLONEDX
               /\ (IsString(obj, bomFormatKey) /\ obj[bomFormatKey].s # SBOM_CYCLONEDX
                     /\ f.pc = "done")
                  => /\ f.ret = ValRet(FALSE, <<>>, Err(MsgOnlyCycloneDX))
                     /\ f.trace = <<"isJSON", "detectSBOMType">>
                     /\ f.dialects = <<>>
               /\ (f.pc = "done" /\ IsErr(f.ret.err))
                  => Cause(f.ret.err) \notin {MsgUnsupportedType, MsgUnknownFormat}
               /\ (f.pc = "done" /\ AsString(obj, bomFormatKey) = SBOM_CYCLONEDX
                     /\ ~IsString(obj, specVersionKey))
                  => /\ f.ret = ValRet(FALSE, <<>>, Wrap(MsgExtract, Err(MsgNoSpecVersion)))
                     /\ f.dialects = <<SBOM_CYCLONEDX>>

\* {"bomFormat": "SPDX", "specVersion": "1.4"} is turned away although the
\* schema of its specVersion exists
C25_Witness ==
    \E c \in Calls :
        /\ C25_Precondition(c)
        /\ frames[c].pc = "done"
        /\ frames[c].sbomType = SBOM_SPDX
        /\ AsString(ObjectOf(frames[c].jsonData), specVersionKey) = V14
        /\ frames[c].ret.err = Err(MsgOnlyCycloneDX)
        /\ frames[c].dialects = <<>>

\* {"bomFormat": "CycloneDX"} alone: the extractor is called with CycloneDX
\* and the missing specVersion is an error of the call
C25_WitnessNoSpecVersion ==
    \E c \in Calls :
        /\ C25_Precondition(c)
        /\ frames[c].pc = "done"
        /\ frames[c].sbomType = SBOM_CYCLONEDX
        /\ specVersionKey \notin DOMAIN ObjectOf(frames[c].jsonData)
        /\ frames[c].dialects = <<SBOM_CYCLONEDX>>
        /\ Cause(frames[c].ret.err) = MsgNoSpecVersion

=============================================================================
